---- MODULE Spec2Model ----
(***************************************************************************)
(* The job execution engine of proof.py: Job (begin / run / do_work), the   *)
(* shared semaphore SEM and run_jobs; then main's job graph, the Result     *)
(* classes and settle().                                                    *)
(*                                                                          *)
(* asyncio is cooperative: the code between two suspension points of a      *)
(* coroutine runs without interleaving, so one action is one such stretch.  *)
(***************************************************************************)
EXTENDS Integers, Sequences, FiniteSets, TLC

\* ---------------------------------------------------------------- bounds
\* Number of Job objects that exist; a batch is 1..n for some n <= NumJobs.
NumJobs == 3

\* Capacity of the gate. proof.py:488 creates asyncio.Semaphore(30); the
\* model scales it down so that a batch can fill it.
GateCapacity == 2

\* Number of jobs of a batch that have preconditions (expected_paths).
MaxReaders == 1

\* Number of settle() calls a Result can receive when settle is called again.
MaxSettleCalls == 2

\* Longest file content given to diff.py, in characters.
MaxFileLen == 2

\* ------------------------------------------------------ program constants
DEFAULT_TIMEOUT_S == 20

\* Python's None in a string-valued field.
None == "None"

\* A field holding None or a non-string value v: <<>> or <<v>>.
Nothing == <<>>
Some(v) == <<v>>

Jobs == 1..NumJobs

\* Paths the preconditions of a job can name.
Paths == {"input", "artifact"}

\* Exit codes a subprocess can report: success and failure.
ExitCodes == {0, 1}

\* settle() calls a run "crashed" when its stderr file is larger than this
\* (inklecate emits a byte order mark and exits 0 on an exception).
StderrLimit == 5

\* Sizes of a stderr file: empty, at the limit, above it.
StderrSizes == {0, StderrLimit, StderrLimit + 1}

VARIABLES
  jobs,            \* the list handed to run_jobs (as a set of Job ids)
  deps,            \* Job.deps
  stdin_path,      \* Job.stdin_path
  expected_paths,  \* Job.expected_paths
  out_path,        \* Job.out_path, the attribute compile_job adds
  timeout,         \* Job.timeout
  capacity,        \* the value run_jobs creates the semaphore with
  task,            \* Job.task: None | "pending" | "done"
  task_exception,  \* the exception a done task holds, or None
  pc,              \* where the coroutine Job.run of a pending task stands
  return_code,     \* Job.return_code
  timed_out,       \* Job.timed_out
  infra_error,     \* Job.infra_error
  SEM,             \* the semaphore: Nothing before run_jobs, then Some(value)
  held,            \* the job is between SEM.acquire() and SEM.release()
  acquired,        \* the job has passed SEM.acquire() at some point
  streams,         \* fin/fout/ferr: "unopened" | "open" | "closed"
  process,         \* the job's subprocess: "none" | "running" | "exited"
  signalled,       \* process.terminate() has been called
  spawned,         \* number of subprocesses the job has created
  wait_bound,      \* timeout argument of the job's latest wait_for
  files,           \* the paths that exist as regular files
  main_pc,         \* main: "run_jobs" | "wait" | "returned" | "raised" (by
                   \* asyncio.wait) | "settled" | "settle_raised"
  stderr_path,     \* Job.stderr_path
  stderr_size,     \* size of the file at stderr_path: Nothing while absent
  results,         \* main's list of PlayerResult / CompilerResult objects
  status,          \* Result.status, per element of results
  result_infra_error,  \* Result.infra_error, per element of results
  settle_calls,    \* number of settle() calls made on each Result
  exit_status,     \* the argument of main's exit(): Nothing before it
  argv,            \* diff.py: sys.argv
  disk,            \* diff.py: the content of each file, Nothing when unreadable
  diff_exit,       \* diff.py: its exit code, Nothing before it has run
  fixture,         \* main: the selected example and which of its files exist
  preflight,       \* main before run_jobs: "select" | "check" | "build" |
                   \* "built" | "aborted"; None when that part is not modelled
  selection,       \* main: the names of the selected drivers and examples
  captured,        \* main: the stdout and stderr path of each job it built
  selected,        \* main: the selected compilers, runtimes and examples
  graph            \* main: the Job objects, jobs and results it has built

\* What the job constructors and main's loops fix before run_jobs.
wiring == <<jobs, deps, stdin_path, expected_paths, out_path, timeout,
            capacity, stderr_path, results>>

\* The state of the command-line steps outside a batch.
tools == <<argv, disk, diff_exit, fixture, preflight, selection, captured,
           selected, graph>>

config == <<wiring, tools>>

\* What run_jobs and the jobs' tasks write.
progress == <<task, task_exception, pc, return_code, timed_out, infra_error,
              SEM, held, acquired, streams, process, signalled, spawned,
              wait_bound, files, main_pc, stderr_size>>

\* What only settle() writes.
settled == <<status, result_infra_error, settle_calls, exit_status>>

vars == <<jobs, deps, stdin_path, expected_paths, out_path, timeout, capacity, task,
          task_exception, pc, return_code, timed_out, infra_error, SEM, held,
          acquired, streams, process, signalled, spawned, wait_bound, files,
          main_pc, stderr_path, stderr_size, results, status,
          result_infra_error, settle_calls, exit_status, argv, disk,
          diff_exit, fixture, preflight, selection, captured, selected, graph>>

\* ------------------------------------------------------------ Job.__init__
\* Mutant: stdin_path is not appended to expected_paths.
JobExpectedPaths_NoStdin(stdin, expected) == expected

\* expected_paths if expected_paths else [], then stdin_path appended.
JobExpectedPaths(stdin, expected) ==
  IF stdin # None THEN Append(expected, stdin) ELSE expected

\* The keyword arguments the job constructors of proof.py pass. A job
\* without preconditions is a compile_job (no deps, an out_path it writes) or
\* a diff_job (deps, no out_path); compile_player_job reads the artifact and
\* its stdin (player_job's single precondition, the stdin path, is the case
\* of compile_player_job in which the artifact exists).
JobKinds ==
  { [stdin |-> None,    expected |-> <<>>],            \* compile_job, diff_job
    [stdin |-> "input", expected |-> <<"artifact">>] } \* compile_player_job

\* Dependency lists: a job depends on jobs constructed before it.
DepChoices(n) ==
  { d \in [Jobs -> SUBSET Jobs] :
      \A j \in Jobs : IF j \in 1..n THEN d[j] \subseteq 1..(j-1) ELSE d[j] = {} }

\* No command-line step of the tools is under way.
ToolsIdle ==
  /\ argv = <<>> /\ disk = <<>> /\ diff_exit = Nothing
  /\ fixture = Nothing /\ preflight = None
  /\ selection = Nothing /\ captured = <<>>
  /\ selected = Nothing /\ graph = Nothing

\* The fields of freshly constructed Job objects J, before run_jobs.
Constructed(J) ==
  /\ timeout = [j \in J |-> DEFAULT_TIMEOUT_S]
  /\ task = [j \in J |-> None]
  /\ task_exception = [j \in J |-> None]
  /\ pc = [j \in J |-> "run"]
  /\ return_code = [j \in J |-> Nothing]
  /\ timed_out = [j \in J |-> FALSE]
  /\ infra_error = [j \in J |-> Nothing]
  /\ SEM = Nothing
  /\ held = [j \in J |-> FALSE]
  /\ acquired = [j \in J |-> FALSE]
  /\ streams = [j \in J |-> "unopened"]
  /\ process = [j \in J |-> "none"]
  /\ signalled = [j \in J |-> FALSE]
  /\ spawned = [j \in J |-> 0]
  /\ wait_bound = [j \in J |-> Nothing]
  /\ stderr_size = [j \in J |-> Nothing]
  /\ files \in SUBSET Paths
  /\ main_pc = "run_jobs"

\* A batch of jobs that write no stderr file and belong to no Result.
Init ==
  /\ \E n \in 0..NumJobs : jobs = 1..n /\ deps \in DepChoices(n)
  /\ \E k \in [Jobs -> JobKinds] :
       /\ \A j \in Jobs : (j \notin jobs) => k[j] = [stdin |-> None, expected |-> <<>>]
       /\ Cardinality({j \in Jobs : k[j].stdin # None}) <= MaxReaders
       /\ stdin_path = [j \in Jobs |-> k[j].stdin]
       /\ expected_paths = [j \in Jobs |-> JobExpectedPaths(k[j].stdin, k[j].expected)]
       /\ out_path = [j \in Jobs |->
            IF j \in jobs /\ k[j].stdin = None /\ deps[j] = {} THEN "artifact" ELSE None]
  /\ stderr_path = [j \in Jobs |-> None]
  /\ results = <<>> /\ status = <<>> /\ result_infra_error = <<>>
  /\ settle_calls = <<>> /\ exit_status = Nothing
  /\ capacity = GateCapacity
  /\ Constructed(Jobs)
  /\ ToolsIdle

\* ---------------------------------------------------------------- helpers
\* Every Job object that exists.
JobIds == DOMAIN task

\* task.done()
TaskDone(j) == task[j] = "done"

\* Mutant: the wait returns once every dependency has been begun.
DepsDone_Begun(j) == \A d \in deps[j] : task[d] # None

\* asyncio.wait([dep.task for dep in self.deps]) has returned: ALL_COMPLETED.
DepsDone(j) == \A d \in deps[j] : TaskDone(d)

\* Mutant: the check reads `if dep.return_code is None`.
DepFailed_OnlyNone(j) == \E d \in deps[j] : return_code[d] = Nothing

\* Mutant: the check reads `if dep.return_code`, the truth value of the code.
DepFailed_Truthy(j) == \E d \in deps[j] : return_code[d] \notin {Nothing, Some(0)}

\* for dep in self.deps: if dep.return_code != 0: return
DepFailed(j) == \E d \in deps[j] : return_code[d] # Some(0)

\* os.path.isfile(path) fails for some path of expected_paths.
MissingPath(j) ==
  \E i \in 1..Len(expected_paths[j]) : expected_paths[j][i] \notin files

\* The path the loop over expected_paths stops at: the first missing one.
FirstMissing(j) ==
  LET idx == { i \in 1..Len(expected_paths[j]) : expected_paths[j][i] \notin files }
  IN expected_paths[j][CHOOSE i \in idx : \A k \in idx : i <= k]

FileNotFoundError(path) == <<"FileNotFoundError", path>>

\* Semaphore._value
SemValue == SEM[1]

\* The coroutine ends: the task is done, holding exception e (None: returned).
Finish(j, e) ==
  /\ task' = [task EXCEPT ![j] = "done"]
  /\ task_exception' = [task_exception EXCEPT ![j] = e]
  /\ pc' = [pc EXCEPT ![j] = "end"]

\* fout.close(); ferr.close(); fin.close()
CloseStreams(j) == streams' = [streams EXCEPT ![j] = "closed"]

\* ------------------------------------------------------------------ run_jobs
\* Mutant: run_jobs awaits after the first begin(), the other jobs are
\* not begun when the first body starts.
RunJobs_BeginFirst ==
  /\ main_pc = "run_jobs"
  /\ SEM' = Some(capacity)
  /\ task' = [j \in JobIds |->
       IF j \in jobs /\ \A k \in jobs : j <= k THEN "pending" ELSE task[j]]
  /\ main_pc' = IF jobs = {} THEN "raised" ELSE "wait"
  /\ UNCHANGED <<config, settled, stderr_size, task_exception, pc, return_code, timed_out, infra_error,
                 held, acquired, streams, process, signalled, spawned,
                 wait_bound, files>>

\* SEM = asyncio.Semaphore(30); for job in jobs: job.begin(); then
\* asyncio.wait(...), which raises ValueError on an empty list.
RunJobs ==
  /\ main_pc = "run_jobs"
  /\ SEM' = Some(capacity)
  /\ task' = [j \in JobIds |-> IF j \in jobs THEN "pending" ELSE task[j]]
  /\ main_pc' = IF jobs = {} THEN "raised" ELSE "wait"
  /\ UNCHANGED <<config, settled, stderr_size, task_exception, pc, return_code, timed_out, infra_error,
                 held, acquired, streams, process, signalled, spawned,
                 wait_bound, files>>

\* done, pending = await asyncio.wait([job.task for job in jobs])
RunJobsReturn ==
  /\ main_pc = "wait"
  /\ \A j \in jobs : TaskDone(j)
  /\ main_pc' = "returned"
  /\ UNCHANGED <<config, settled, stderr_size, task, task_exception, pc, return_code, timed_out,
                 infra_error, SEM, held, acquired, streams, process, signalled,
                 spawned, wait_bound, files>>

\* ------------------------------------------------------------------- Job.run
\* do_work from its first line to its first await, entered with the slot
\* just taken (sem is the semaphore's value after the acquire).
DoWorkStart(j, sem) ==
  /\ acquired' = [acquired EXCEPT ![j] = TRUE]
  /\ IF MissingPath(j)
     THEN \* infra_error set, return; finally: SEM.release()
          /\ infra_error' = [infra_error EXCEPT ![j] = FileNotFoundError(FirstMissing(j))]
          /\ SEM' = Some(sem + 1)
          /\ Finish(j, None)
          /\ UNCHANGED <<held, streams, stderr_size>>
     ELSE \* open the three streams, then await create_subprocess_exec
          /\ streams' = [streams EXCEPT ![j] = "open"]
          /\ stderr_size' = IF stderr_path[j] = None THEN stderr_size
                            ELSE [stderr_size EXCEPT ![j] = Some(0)]
          /\ SEM' = Some(sem)
          /\ held' = [held EXCEPT ![j] = TRUE]
          /\ pc' = [pc EXCEPT ![j] = "create_subprocess_exec"]
          /\ UNCHANGED <<infra_error, task, task_exception>>

\* Mutant: run() without its dependency handling (no wait, no check).
Run_NoDeps(j) ==
  /\ task[j] = "pending" /\ pc[j] = "run"
  /\ IF SemValue > 0
     THEN DoWorkStart(j, SemValue - 1)
     ELSE /\ pc' = [pc EXCEPT ![j] = "acquire"]
          /\ UNCHANGED <<SEM, held, acquired, streams, infra_error, task,
                         task_exception, stderr_size>>
  /\ UNCHANGED <<config, settled, return_code, timed_out, process, signalled, spawned,
                 wait_bound, files, main_pc>>

\* Mutant: run() takes the slot first and looks at its dependencies after.
Run_AcquireFirst(j) ==
  /\ task[j] = "pending" /\ pc[j] = "run"
  /\ DepsDone(j)
  /\ IF SemValue > 0
     THEN IF DepFailed(j)
          THEN /\ Finish(j, None)
               /\ UNCHANGED <<SEM, held, acquired, streams, infra_error, stderr_size>>
          ELSE DoWorkStart(j, SemValue - 1)
     ELSE /\ pc' = [pc EXCEPT ![j] = "acquire"]
          /\ UNCHANGED <<SEM, held, acquired, streams, infra_error, task,
                         task_exception, stderr_size>>
  /\ UNCHANGED <<config, settled, return_code, timed_out, process, signalled, spawned,
                 wait_bound, files, main_pc>>

\* The task runs from the top of run() once its dependencies' tasks are done.
Run(j) ==
  /\ task[j] = "pending" /\ pc[j] = "run"
  /\ DepsDone(j)
  /\ IF DepFailed(j)
     THEN /\ Finish(j, None)
          /\ UNCHANGED <<SEM, held, acquired, streams, infra_error, stderr_size>>
     ELSE IF SemValue > 0
          THEN DoWorkStart(j, SemValue - 1)
          ELSE /\ pc' = [pc EXCEPT ![j] = "acquire"]
               /\ UNCHANGED <<SEM, held, acquired, streams, infra_error, task,
                              task_exception, stderr_size>>
  /\ UNCHANGED <<config, settled, return_code, timed_out, process, signalled, spawned,
                 wait_bound, files, main_pc>>

\* await SEM.acquire() resumes when a slot is free.
Acquire(j) ==
  /\ task[j] = "pending" /\ pc[j] = "acquire"
  /\ SemValue > 0
  /\ DoWorkStart(j, SemValue - 1)
  /\ UNCHANGED <<config, settled, return_code, timed_out, process, signalled, spawned,
                 wait_bound, files, main_pc>>


\* ----------------------------------------------------------------- do_work
\* Mutant: run() without the finally clause, the slot is never given back.
Release_Never(j) ==
  /\ SEM' = SEM
  /\ held' = [held EXCEPT ![j] = FALSE]

\* finally: SEM.release()
Release(j) ==
  /\ SEM' = Some(SemValue + 1)
  /\ held' = [held EXCEPT ![j] = FALSE]

\* await asyncio.create_subprocess_exec(...) succeeds; the first
\* wait_for(process.wait(), self.timeout) starts.
SpawnOk(j) ==
  /\ task[j] = "pending" /\ pc[j] = "create_subprocess_exec"
  /\ process' = [process EXCEPT ![j] = "running"]
  /\ spawned' = [spawned EXCEPT ![j] = @ + 1]
  /\ wait_bound' = [wait_bound EXCEPT ![j] = Some(timeout[j])]
  /\ pc' = [pc EXCEPT ![j] = "wait_for"]
  /\ UNCHANGED <<config, settled, stderr_size, task, task_exception, return_code, timed_out,
                 infra_error, SEM, held, acquired, streams, signalled, files,
                 main_pc>>

\* except PermissionError / except FileNotFoundError: infra_error = e; the
\* streams are closed and run() releases the slot.
SpawnErrors == {"PermissionError", "FileNotFoundError"}

SpawnCaught(j) ==
  /\ task[j] = "pending" /\ pc[j] = "create_subprocess_exec"
  /\ \E e \in SpawnErrors : infra_error' = [infra_error EXCEPT ![j] = <<e, "command">>]
  /\ CloseStreams(j)
  /\ Release(j)
  /\ Finish(j, None)
  /\ UNCHANGED <<config, settled, stderr_size, return_code, timed_out, acquired, process, signalled,
                 spawned, wait_bound, files, main_pc>>

\* create_subprocess_exec raises an OSError that do_work has no handler for:
\* it leaves do_work past the close() calls and, after run()'s finally,
\* becomes the task's exception.
SpawnUncaught(j) ==
  /\ task[j] = "pending" /\ pc[j] = "create_subprocess_exec"
  /\ Release(j)
  /\ Finish(j, "OSError")
  /\ UNCHANGED <<config, settled, stderr_size, return_code, timed_out, infra_error, acquired, streams,
                 process, signalled, spawned, wait_bound, files, main_pc>>

\* What a process that exits may have left behind: the file at out_path.
FilesAfterExit(j) ==
  IF out_path[j] = None THEN {files} ELSE {files, files \cup {out_path[j]}}

\* What the process wrote to its stderr file by the time it exited.
StderrAfterExit(j) ==
  IF stderr_path[j] = None THEN {stderr_size}
  ELSE { [stderr_size EXCEPT ![j] = Some(n)] : n \in StderrSizes }

\* process.wait() returns code within the bound of the wait_for at pc `at`.
Reap(j, at, code) ==
  /\ task[j] = "pending" /\ pc[j] = at
  /\ return_code' = [return_code EXCEPT ![j] = Some(code)]
  /\ process' = [process EXCEPT ![j] = "exited"]
  /\ files' \in FilesAfterExit(j)
  /\ stderr_size' \in StderrAfterExit(j)
  /\ CloseStreams(j)
  /\ Release(j)
  /\ Finish(j, None)
  /\ UNCHANGED <<config, settled, timed_out, infra_error, acquired, signalled, spawned,
                 wait_bound, main_pc>>

\* self.return_code = await asyncio.wait_for(process.wait(), self.timeout)
Exit(j) == \E code \in ExitCodes : Reap(j, "wait_for", code)

\* Mutant: the second wait is `await process.wait()`, without a bound.
SecondWaitBound_Unbounded(j) == Nothing

\* The timeout argument of the second wait_for: self.timeout again.
SecondWaitBound(j) == Some(timeout[j])

\* Mutant: after a timeout the job terminates the process and spawns again.
Timeout_Retry(j) ==
  /\ task[j] = "pending" /\ pc[j] = "wait_for"
  /\ timed_out' = [timed_out EXCEPT ![j] = TRUE]
  /\ signalled' = [signalled EXCEPT ![j] = TRUE]
  /\ pc' = [pc EXCEPT ![j] = "create_subprocess_exec"]
  /\ UNCHANGED <<config, settled, stderr_size, task, task_exception,
                 return_code, infra_error, SEM, held, acquired, streams,
                 process, spawned, wait_bound, files, main_pc>>

\* except asyncio.TimeoutError: timed_out = True; process.terminate(); the
\* second wait_for(process.wait(), self.timeout) starts.

Timeout(j) ==
  /\ task[j] = "pending" /\ pc[j] = "wait_for"
  /\ timed_out' = [timed_out EXCEPT ![j] = TRUE]
  /\ signalled' = [signalled EXCEPT ![j] = TRUE]
  /\ wait_bound' = [wait_bound EXCEPT ![j] = SecondWaitBound(j)]
  /\ pc' = [pc EXCEPT ![j] = "wait_for_2"]
  /\ UNCHANGED <<config, settled, stderr_size, task, task_exception, return_code, infra_error, SEM,
                 held, acquired, streams, process, spawned, files, main_pc>>

\* The terminated process is reaped by the second wait_for.
ExitAfterTerminate(j) == \E code \in ExitCodes : Reap(j, "wait_for_2", code)

\* Mutant: nothing bounds the second wait, so it never times out.
SecondTimeout_Never(j) == FALSE /\ UNCHANGED vars

\* The second wait_for times out too: asyncio.TimeoutError leaves the except
\* clause, do_work and (after the finally) run(); the process is still alive.
SecondTimeout(j) ==
  /\ task[j] = "pending" /\ pc[j] = "wait_for_2"
  /\ Release(j)
  /\ Finish(j, "TimeoutError")
  /\ UNCHANGED <<config, settled, stderr_size, return_code, timed_out, infra_error, acquired, streams,
                 process, signalled, spawned, wait_bound, files, main_pc>>

\* A process nobody waits for any more exits on its own.
OrphanExit(j) ==
  /\ TaskDone(j) /\ process[j] = "running"
  /\ process' = [process EXCEPT ![j] = "exited"]
  /\ files' \in FilesAfterExit(j)
  /\ UNCHANGED <<config, settled, stderr_size, task, task_exception, pc, return_code, timed_out,
                 infra_error, SEM, held, acquired, streams, signalled, spawned,
                 wait_bound, main_pc>>

\* Steps the event loop takes by itself: ready callbacks and due timers.
LoopStep(j) ==
  \/ Run(j)
  \/ Acquire(j)
  \/ SpawnOk(j)
  \/ SpawnCaught(j)
  \/ SpawnUncaught(j)
  \/ Timeout(j)
  \/ SecondTimeout(j)

\* Steps that wait for a subprocess to exit, which it may never do.
ProcessStep(j) ==
  \/ Exit(j)
  \/ ExitAfterTerminate(j)
  \/ OrphanExit(j)

Scheduled ==
  \/ RunJobs
  \/ RunJobsReturn
  \/ \E j \in Jobs : LoopStep(j)

Next ==
  \/ Scheduled
  \/ \E j \in Jobs : ProcessStep(j)

Spec == Init /\ [][Next]_vars

\* The event loop runs every ready callback and fires every due timer, so a
\* step of the loop that stays possible is taken; a subprocess need not exit.
FairSpec == Spec /\ WF_vars(Scheduled)

\* ------------------------------------------------- batches with any wiring
\* Dependency lists a caller can wire after construction (deps is a plain
\* list attribute): any jobs of the batch, the job itself included.
AnyDepChoices(n) ==
  { d \in [Jobs -> SUBSET Jobs] :
      \A j \in Jobs : IF j \in 1..n THEN d[j] \subseteq 1..n ELSE d[j] = {} }

\* A batch handed to run_jobs whose dependency graph need not be acyclic.
CycleInit ==
  /\ \E n \in 1..NumJobs : jobs = 1..n /\ deps \in AnyDepChoices(n)
  /\ stdin_path = [j \in Jobs |-> None]
  /\ expected_paths = [j \in Jobs |-> <<>>]
  /\ out_path = [j \in Jobs |-> None]
  /\ stderr_path = [j \in Jobs |-> None]
  /\ results = <<>> /\ status = <<>> /\ result_infra_error = <<>>
  /\ settle_calls = <<>> /\ exit_status = Nothing
  /\ capacity \in 1..GateCapacity
  /\ Constructed(Jobs)
  /\ ToolsIdle

CycleSpec == CycleInit /\ [][Next]_vars


\* ------------------------------------------------------------------ Status
Status(name) == [name |-> name]

SuccessStatus == Status("SUCCESS")
FailStatus == Status("FAIL")
ErrorCompilerDidNotOutputStatus == Status("COMPILER_NO_OUTPUT")
ErrorRuntimeCrashedStatus == Status("RUNTIME_CRASHED")
ErrorCompilerCrashedStatus == Status("COMPILER_CRASHED")
TimeoutStatus == Status("RUNTIME_TIMEOUT")
InfraErrorStatus == Status("INFRA_ERROR")

\* A Result object before settle(): it has no status attribute.
Unset == Status(None)

\* ------------------------------------------------------- the job constructors
compile_job ==
  [stdin |-> None, expected |-> <<>>, out |-> "artifact", stderr |-> "stderr",
   deps |-> {}]

compile_player_job(bytecode_path, dep) ==
  [stdin |-> "input", expected |-> <<bytecode_path>>, out |-> None,
   stderr |-> "stderr", deps |-> {dep}]

player2_job(dep) ==
  [stdin |-> "input", expected |-> <<>>, out |-> None, stderr |-> "stderr",
   deps |-> {dep}]

player_job ==
  [stdin |-> "input", expected |-> <<>>, out |-> None,
   stderr |-> "stderr", deps |-> {}]

diff_job(dep) ==
  [stdin |-> None, expected |-> <<>>, out |-> None, stderr |-> None,
   deps |-> {dep}]

CompilerResult(job_a, job_b, job_c) ==
  [class |-> "CompilerResult", compile_job |-> Some(job_a), player_job |-> job_b,
   diff_job |-> job_c]

PlayerResult(job_a, job_b, job_z) ==
  [class |-> "PlayerResult", compile_job |-> job_z, player_job |-> job_a,
   diff_job |-> job_b]

\* ---------------------------------------------------------------------- main
\* What main is run on: one example, ink (with the reference compiler
\* selected) or bytecode, and at most one selected runtime.
MainInputs == [example : {"ink", "bytecode"}, runtime : BOOLEAN]

\* The jobs main appends to its list, in order; a job's id is its position.
InkCompilerJobs(in) ==
  IF in.example = "ink"
  THEN <<compile_job, compile_player_job(compile_job.out, 1), diff_job(2)>>
  ELSE <<>>

InkRuntimeJobs(in) ==
  IF in.example = "ink" /\ in.runtime
  THEN <<player2_job(1), diff_job(Len(InkCompilerJobs(in)) + 1)>>
  ELSE <<>>

BytecodeJobs(in) ==
  IF in.example = "bytecode" /\ in.runtime
  THEN <<player_job, diff_job(1)>>
  ELSE <<>>

MainJobs(in) == InkCompilerJobs(in) \o InkRuntimeJobs(in) \o BytecodeJobs(in)

\* The Result objects main appends, in order.
MainResults(in) ==
  LET a == Len(InkCompilerJobs(in)) IN
     (IF in.example = "ink" THEN <<CompilerResult(1, 2, 3)>> ELSE <<>>)
  \o (IF in.example = "ink" /\ in.runtime
      THEN <<PlayerResult(a + 1, a + 2, Some(1))>> ELSE <<>>)
  \o (IF in.example = "bytecode" /\ in.runtime
      THEN <<PlayerResult(1, 2, Nothing)>> ELSE <<>>)

\* The ids of the largest batch; the job fields are functions on this set.
MainJobIds == UNION { DOMAIN MainJobs(in) : in \in MainInputs }

\* A position of the list that the batch does not fill: no job.
NoJob ==
  [stdin |-> None, expected |-> <<>>, out |-> None, stderr |-> None, deps |-> {}]

\* The state in which main calls asyncio.run(run_jobs(jobs, results)).
MainInit ==
  /\ \E in \in MainInputs :
       LET js == [j \in MainJobIds |->
                    IF j \in DOMAIN MainJobs(in) THEN MainJobs(in)[j] ELSE NoJob]
       IN /\ jobs = DOMAIN MainJobs(in)
          /\ deps = [j \in MainJobIds |-> js[j].deps]
          /\ stdin_path = [j \in MainJobIds |-> js[j].stdin]
          /\ expected_paths =
               [j \in MainJobIds |-> JobExpectedPaths(js[j].stdin, js[j].expected)]
          /\ out_path = [j \in MainJobIds |-> js[j].out]
          /\ stderr_path = [j \in MainJobIds |-> js[j].stderr]
          /\ results = MainResults(in)
          /\ status = [i \in DOMAIN MainResults(in) |-> Unset]
          /\ result_infra_error = [i \in DOMAIN MainResults(in) |-> Nothing]
          /\ settle_calls = [i \in DOMAIN MainResults(in) |-> 0]
  /\ exit_status = Nothing
  /\ capacity \in 1..GateCapacity
  /\ Constructed(MainJobIds)
  /\ ToolsIdle

\* -------------------------------------------------------------------- settle
\* What a call of settle() does to the Result: the status and infra_error it
\* leaves, or an exception.
\* (e is what it assigns to self.infra_error: Nothing when it does not.)
Settled(s, e) == [status |-> s, infra_error |-> e, raises |-> FALSE]
Raises(r) == [status |-> Unset, infra_error |-> Nothing, raises |-> TRUE]

\* Mutant: the size test reads `>= 5`.
DiffVerdict_AtLeast(r) ==
  IF return_code[r.diff_job] = Some(1)
  THEN IF stderr_size[r.player_job] = Nothing
       THEN Raises(r)
       ELSE IF stderr_size[r.player_job][1] >= StderrLimit
            THEN Settled(ErrorRuntimeCrashedStatus, Nothing)
            ELSE Settled(FailStatus, Nothing)
  ELSE Settled(SuccessStatus, Nothing)

\* Mutant: the final else is missing, a diff code other than 1 sets nothing.
DiffVerdict_NoElse(r) ==
  IF return_code[r.diff_job] = Some(1)
  THEN IF stderr_size[r.player_job] = Nothing
       THEN Raises(r)
       ELSE IF stderr_size[r.player_job][1] > StderrLimit
            THEN Settled(ErrorRuntimeCrashedStatus, Nothing)
            ELSE Settled(FailStatus, Nothing)
  ELSE Settled(Unset, Nothing)

\* os.path.getsize(self.player_job.stderr_path) > 5, the last two rungs.
DiffVerdict(r) ==
  IF return_code[r.diff_job] = Some(1)
  THEN IF stderr_size[r.player_job] = Nothing
       THEN Raises(r)
       ELSE IF stderr_size[r.player_job][1] > StderrLimit
            THEN Settled(ErrorRuntimeCrashedStatus, Nothing)
            ELSE Settled(FailStatus, Nothing)
  ELSE Settled(SuccessStatus, Nothing)

\* Mutant: the run job's infra_error is not looked at.
PlayerVerdict_NoInfra(r) ==
  IF timed_out[r.player_job] THEN Settled(TimeoutStatus, Nothing)
  ELSE IF return_code[r.player_job] # Some(0)
  THEN Settled(ErrorRuntimeCrashedStatus, Nothing)
  ELSE DiffVerdict(r)

\* The rungs both settle methods end with: the run job, then the diff job.
PlayerVerdict(r) ==
  IF timed_out[r.player_job] THEN Settled(TimeoutStatus, Nothing)
  ELSE IF infra_error[r.player_job] # Nothing
  THEN Settled(InfraErrorStatus, infra_error[r.player_job])
  ELSE IF return_code[r.player_job] # Some(0)
  THEN Settled(ErrorRuntimeCrashedStatus, Nothing)
  ELSE DiffVerdict(r)

PlayerResult_settle(r) == PlayerVerdict(r)

\* Mutant: the artifact is looked for before the compile job's exit code.
CompilerResult_settle_FileFirst(r) ==
  LET c == r.compile_job[1] IN
  IF timed_out[c] THEN Settled(TimeoutStatus, Nothing)
  ELSE IF infra_error[c] # Nothing THEN Settled(InfraErrorStatus, infra_error[c])
  ELSE IF out_path[c] \notin files
  THEN Settled(ErrorCompilerDidNotOutputStatus, Nothing)
  ELSE IF return_code[c] \notin {Nothing, Some(0)}
  THEN Settled(ErrorCompilerCrashedStatus, Nothing)
  ELSE PlayerVerdict(r)

CompilerResult_settle(r) ==
  LET c == r.compile_job[1] IN
  IF timed_out[c] THEN Settled(TimeoutStatus, Nothing)
  ELSE IF infra_error[c] # Nothing THEN Settled(InfraErrorStatus, infra_error[c])
  ELSE IF return_code[c] \notin {Nothing, Some(0)}
  THEN Settled(ErrorCompilerCrashedStatus, Nothing)
  ELSE IF out_path[c] \notin files
  THEN Settled(ErrorCompilerDidNotOutputStatus, Nothing)
  ELSE PlayerVerdict(r)

settle(r) ==
  IF r.class = "CompilerResult" THEN CompilerResult_settle(r)
  ELSE PlayerResult_settle(r)

\* Mutant: the settle loop does not wait for asyncio.run(run_jobs(...)).
SettleGuard_Early == main_pc \in {"wait", "returned"}

\* The settle loop comes after asyncio.run(run_jobs(jobs, results)).
SettleGuard == main_pc = "returned"

\* for result in results: result.settle()
SettleResults ==
  LET n == Len(results)
      raising == { i \in 1..n : settle(results[i]).raises }
      stop == IF raising = {} THEN n + 1
              ELSE CHOOSE i \in raising : \A k \in raising : i <= k
  IN /\ SettleGuard
     /\ results # <<>>
     /\ status' = [i \in 1..n |->
          IF i < stop THEN settle(results[i]).status ELSE status[i]]
     /\ result_infra_error' = [i \in 1..n |->
          IF i < stop /\ settle(results[i]).infra_error # Nothing
          THEN settle(results[i]).infra_error ELSE result_infra_error[i]]
     /\ settle_calls' = [i \in 1..n |->
          IF i <= stop THEN settle_calls[i] + 1 ELSE settle_calls[i]]
     /\ main_pc' = IF stop <= n THEN "settle_raised" ELSE "settled"
     /\ UNCHANGED <<config, task, task_exception, pc, return_code, timed_out,
                    infra_error, SEM, held, acquired, streams, process,
                    signalled, spawned, wait_bound, files, stderr_size,
                    exit_status>>

\* Mutant: a non-SUCCESS result is looked for before a FAIL.
decide_exit_status_NonSuccessFirst(st) ==
  IF \E i \in DOMAIN st : st[i] # SuccessStatus THEN 2
  ELSE IF \E i \in DOMAIN st : st[i] = FailStatus THEN 1
  ELSE 0

\* decide_exit_status(results), st being the results' statuses.
decide_exit_status(st) ==
  IF \E i \in DOMAIN st : st[i] = FailStatus THEN 1
  ELSE IF \E i \in DOMAIN st : st[i] # SuccessStatus THEN 2
  ELSE 0

\* exit(decide_exit_status(results)), main being run without --serve.
MainExit ==
  /\ main_pc = "settled"
  /\ exit_status' = Some(decide_exit_status(status))
  /\ main_pc' = "exited"
  /\ UNCHANGED <<config, task, task_exception, pc, return_code, timed_out,
                 infra_error, SEM, held, acquired, streams, process, signalled,
                 spawned, wait_bound, files, stderr_size, status,
                 result_infra_error, settle_calls>>

MainNext ==
  \/ RunJobs
  \/ RunJobsReturn
  \/ \E j \in MainJobIds : LoopStep(j)
  \/ \E j \in MainJobIds : ProcessStep(j)
  \/ SettleResults
  \/ MainExit

\* main, from asyncio.run(run_jobs(...)) to its exit.
MainSpec == MainInit /\ [][MainNext]_vars

\* ---------------------------------------------------------------- no batch
\* No Job has been constructed and run_jobs has not been called.
NoBatch(J) ==
  /\ jobs = {}
  /\ deps = [j \in J |-> {}]
  /\ stdin_path = [j \in J |-> None]
  /\ expected_paths = [j \in J |-> <<>>]
  /\ out_path = [j \in J |-> None]
  /\ stderr_path = [j \in J |-> None]
  /\ results = <<>> /\ status = <<>> /\ result_infra_error = <<>>
  /\ settle_calls = <<>> /\ exit_status = Nothing
  /\ capacity = GateCapacity
  /\ Constructed(J)

\* ----------------------------------------------------------------- diff.py
\* File contents: sequences of characters, U+FEFF and the newline among them.
Chars == {"BOM", "a", "b", "NL"}

Contents == UNION { [1..n -> Chars] : n \in 0..MaxFileLen }

\* Command lines of diff.py: one, two or three arguments after the script.
ArgvChoices ==
  { <<"diff.py", "x">>, <<"diff.py", "x", "y">>, <<"diff.py", "x", "y", "x">> }

\* codecs.open(path, encoding='utf-8-sig').read(): one leading BOM is dropped.
decode_utf_8_sig(c) == IF c # <<>> /\ c[1] = "BOM" THEN Tail(c) ELSE c

\* The position of the first newline of c, Len(c) + 1 when there is none.
FirstBreak(c) ==
  IF \E k \in 1..Len(c) : c[k] = "NL"
  THEN CHOOSE k \in 1..Len(c) : c[k] = "NL" /\ \A i \in 1..(k-1) : c[i] # "NL"
  ELSE Len(c) + 1

\* str.splitlines(): the lines without their terminators; the last line
\* need not be terminated, and a text ending in a newline has no empty
\* last line.
RECURSIVE splitlines(_)
splitlines(c) ==
  IF c = <<>> THEN <<>>
  ELSE <<SubSeq(c, 1, FirstBreak(c) - 1)>>
         \o splitlines(SubSeq(c, FirstBreak(c) + 1, Len(c)))

\* list(unified_diff(a_lines, b_lines, ...)) is non-empty.
out_lines(a_lines, b_lines) == a_lines # b_lines

\* The exit code of `python diff.py a b`: exit(1) on a wrong argument count,
\* 1 from the interpreter when codecs.open raises, exit(1) when the diff is
\* not empty, 0 at the end of the script.
diff_py(args, fs) ==
  IF Len(args) # 3 THEN 1
  ELSE IF fs[args[2]] = Nothing \/ fs[args[3]] = Nothing THEN 1
  ELSE IF out_lines(splitlines(decode_utf_8_sig(fs[args[2]][1])),
                    splitlines(decode_utf_8_sig(fs[args[3]][1]))) THEN 1
  ELSE 0

DiffInit ==
  /\ NoBatch(Jobs)
  /\ files = {}
  /\ argv \in ArgvChoices
  /\ disk \in [{"x", "y"} -> {Nothing} \cup { Some(c) : c \in Contents }]
  /\ diff_exit = Nothing
  /\ fixture = Nothing /\ preflight = None
  /\ selection = Nothing /\ captured = <<>>
  /\ selected = Nothing /\ graph = Nothing

\* One run of diff.py.
DiffRun ==
  /\ diff_exit = Nothing
  /\ argv # <<>>
  /\ diff_exit' = Some(diff_py(argv, disk))
  /\ UNCHANGED <<wiring, settled, progress, argv, disk, fixture, preflight,
                 selection, captured, selected, graph>>

DiffSpec == DiffInit /\ [][DiffRun]_vars

\* ------------------------------------------------- main, before run_jobs
\* The files of an example directory: story.ink or bytecode.json,
\* input.txt, transcript.txt, metadata.json.
RequiredFiles == {"source", "input", "transcript", "metadata"}

\* One example directory matched by --examples, with the files that exist
\* in it, and whether a runtime is among the selected drivers (for an ink
\* example the reference compiler is).
Fixtures ==
  [kind : {"ink", "bytecode"}, present : SUBSET RequiredFiles, runtime : BOOLEAN]

\* The example and drivers as MainJobs takes them.
AsMainInput(f) == [example |-> f.kind, runtime |-> f.runtime]

PreflightInit ==
  /\ NoBatch(MainJobIds)
  /\ fixture \in { Some(f) : f \in Fixtures }
  /\ files = fixture[1].present \cap Paths
  /\ preflight = "select"
  /\ argv = <<>> /\ disk = <<>> /\ diff_exit = Nothing
  /\ selection = Nothing /\ captured = <<>>
  /\ selected = Nothing /\ graph = Nothing

\* example.should_ignore(): metadata() opens metadata.json, and nothing
\* catches its FileNotFoundError, which ends the interpreter with code 1.
\* (The example is not hidden: a hidden one is not selected.)
LoadMetadata ==
  /\ preflight = "select"
  /\ IF "metadata" \in fixture[1].present
     THEN preflight' = "check" /\ UNCHANGED exit_status
     ELSE preflight' = "aborted" /\ exit_status' = Some(1)
  /\ UNCHANGED <<wiring, progress, status, result_infra_error, settle_calls,
                 argv, disk, diff_exit, fixture, selection, captured, selected,
                 graph>>

\* example.check(): BytecodeExample tests bytecode_path, InkExample tests
\* transcript_path. TRUE when check_path does not raise.
check(f) ==
  IF f.kind = "bytecode" THEN "source" \in f.present
  ELSE "transcript" \in f.present

\* try: example.check() ... except FileNotFoundError: print(...); exit(1)
CheckExamples ==
  /\ preflight = "check"
  /\ IF check(fixture[1])
     THEN preflight' = "build" /\ UNCHANGED exit_status
     ELSE preflight' = "aborted" /\ exit_status' = Some(1)
  /\ UNCHANGED <<wiring, progress, status, result_infra_error, settle_calls,
                 argv, disk, diff_exit, fixture, selection, captured, selected,
                 graph>>

\* The loops of main that construct the jobs and the results.
BuildJobs ==
  LET in == AsMainInput(fixture[1])
      js == [j \in MainJobIds |->
               IF j \in DOMAIN MainJobs(in) THEN MainJobs(in)[j] ELSE NoJob]
  IN /\ preflight = "build"
     /\ preflight' = "built"
     /\ jobs' = DOMAIN MainJobs(in)
     /\ deps' = [j \in MainJobIds |-> js[j].deps]
     /\ stdin_path' = [j \in MainJobIds |-> js[j].stdin]
     /\ expected_paths' =
          [j \in MainJobIds |-> JobExpectedPaths(js[j].stdin, js[j].expected)]
     /\ out_path' = [j \in MainJobIds |-> js[j].out]
     /\ stderr_path' = [j \in MainJobIds |-> js[j].stderr]
     /\ results' = MainResults(in)
     /\ status' = [i \in DOMAIN MainResults(in) |-> Unset]
     /\ result_infra_error' = [i \in DOMAIN MainResults(in) |-> Nothing]
     /\ settle_calls' = [i \in DOMAIN MainResults(in) |-> 0]
     /\ UNCHANGED <<timeout, capacity, progress, exit_status, argv, disk,
                    diff_exit, fixture, selection, captured, selected, graph>>

\* asyncio.run(run_jobs(jobs, results)) once the jobs are built.
BeginJobs == preflight = "built" /\ RunJobs

PreflightNext ==
  \/ LoadMetadata
  \/ CheckExamples
  \/ BuildJobs
  \/ BeginJobs

\* main from the selection of the examples to the start of the batch.
PreflightSpec == PreflightInit /\ [][PreflightNext]_vars

\* ------------------------------------------------------ names of the files
\* Names of drivers and example directories: strings, as sequences of
\* characters; a name can contain the underscore.
Names == { <<"A">>, <<"B">>, <<"A", "_", "B">> }

\* An optional name: Nothing, or Some(name).
OptionalNames == {Nothing} \cup { Some(n) : n \in Names }

\* What main builds its jobs from: the reference compiler (selected), at
\* most one selected runtime, the reference runtime, at most one ink
\* example and at most one bytecode example, not both missing.
Selections ==
  { sel \in [compiler : Names, runtime : OptionalNames, reference_runtime : Names,
             ink : OptionalNames, bytecode : OptionalNames] :
      sel.ink # Nothing \/ sel.bytecode # Nothing }

\* '_'.join(names)
RECURSIVE join(_)
join(names) ==
  IF names = <<>> THEN <<>>
  ELSE IF Len(names) = 1 THEN names[1]
  ELSE names[1] \o <<"_">> \o join(Tail(names))

\* make_name(*things, suffix=...)
make_name(things, suffix) == join(things) \o <<suffix>>

\* The files a job captures into: stdout_path and stderr_path (<<>>: none).
Captures(stdout, stderr) == [stdout |-> stdout, stderr |-> stderr]

compile_job_paths(compiler, ink) ==
  Captures(make_name(<<compiler, ink>>, "_stdout.txt"),
           make_name(<<compiler, ink>>, "_stderr.txt"))

compile_player_job_paths(compiler, player, example) ==
  Captures(make_name(<<compiler, player, example>>, "_stdout.txt"),
           make_name(<<compiler, player, example>>, "_stderr.txt"))

\* player_job and player2_job name their files alike.
player_job_paths(player, bytecode) ==
  Captures(make_name(<<player, bytecode>>, "_stdout.txt"),
           make_name(<<player, bytecode>>, "_stderr.txt"))

\* diff_job(a_path, b_path, out_path): stdout_path is the diff path.
diff_job_paths(diff_path) == Captures(diff_path, <<>>)

\* The captured paths of the jobs main appends, in order.
JobPaths(sel) ==
     (IF sel.ink # Nothing
      THEN << compile_job_paths(sel.compiler, sel.ink[1]),
              compile_player_job_paths(sel.compiler, sel.reference_runtime, sel.ink[1]),
              diff_job_paths(make_name(<<sel.compiler, sel.reference_runtime,
                                         sel.ink[1]>>, "_diff.txt")) >>
      ELSE <<>>)
  \o (IF sel.ink # Nothing /\ sel.runtime # Nothing
      THEN << player_job_paths(sel.runtime[1], sel.ink[1]),
              diff_job_paths(make_name(<<sel.runtime[1], sel.ink[1]>>, "_diff.txt")) >>
      ELSE <<>>)
  \o (IF sel.bytecode # Nothing /\ sel.runtime # Nothing
      THEN << player_job_paths(sel.runtime[1], sel.bytecode[1]),
              diff_job_paths(make_name(<<sel.runtime[1], sel.bytecode[1]>>, "_diff.txt")) >>
      ELSE <<>>)

NameInit ==
  /\ NoBatch(Jobs)
  /\ files = {}
  /\ selection \in { Some(sel) : sel \in Selections }
  /\ captured = <<>>
  /\ argv = <<>> /\ disk = <<>> /\ diff_exit = Nothing
  /\ fixture = Nothing /\ preflight = None
  /\ selected = Nothing /\ graph = Nothing

\* The loops of main that construct the jobs, for the paths they name.
NameJobs ==
  /\ selection # Nothing
  /\ captured = <<>>
  /\ captured' = JobPaths(selection[1])
  /\ UNCHANGED <<wiring, settled, progress, argv, disk, diff_exit, fixture,
                 preflight, selection, selected, graph>>

NameSpec == NameInit /\ [][NameJobs]_vars

\* ------------------------------------------------- main, the job graph
\* The drivers and examples found on disk, in the order of main's lists.
compiler_drivers == <<"reference_compiler", "other_compiler">>
player_drivers == <<"reference_runtime", "other_runtime">>
ink_examples == <<"I001", "I002">>
bytecode_examples == <<"B001">>

reference_compiler == "reference_compiler"
reference_runtime == "reference_runtime"

Range(seq) == { seq[i] : i \in DOMAIN seq }

\* The elements of list seq that are in S, in the order of seq.
Filter(seq, S) ==
  LET In(x) == x \in S IN SelectSeq(seq, In)

\* The selections that pass main's validation: some example matches
\* --examples, and ink examples need a selected compiler.
ValidSelections ==
  { sel \in [compilers : SUBSET Range(compiler_drivers),
             runtimes : SUBSET Range(player_drivers),
             ink : SUBSET Range(ink_examples),
             bytecode : SUBSET Range(bytecode_examples)] :
      /\ sel.ink # {} \/ sel.bytecode # {}
      /\ sel.ink # {} => sel.compilers # {} }

\* A Job object as its constructor builds it; its identity is its position
\* in the list of objects.
JobObject(constructor, program, example, job_deps) ==
  [constructor |-> constructor, program |-> program, example |-> example,
   deps |-> job_deps]

\* jobs = []; results = []; refrence_compile_job = {}
\* (refrence_compile_job maps an example to a job, 0: the key is absent;
\* raised: a KeyError has left main.)
EmptyGraph ==
  [objects |-> <<>>, jobs |-> <<>>, results |-> <<>>,
   refrence_compile_job |-> [e \in Range(ink_examples) |-> 0],
   raised |-> FALSE]

\* The body of `for compiler in selected_compilers`.
CompilerStep(st, compiler, example) ==
  LET a == Len(st.objects) + 1
      b == a + 1
      c == a + 2
  IN [objects |-> st.objects \o
        << JobObject("compile_job", compiler, example, <<>>),
           JobObject("compile_player_job", compiler, example, <<a>>),
           JobObject("diff_job", compiler, example, <<b>>) >>,
      jobs |-> st.jobs \o <<a, b, c>>,
      results |-> Append(st.results,
        [class |-> "CompilerResult", program |-> compiler, example |-> example,
         compile_job |-> Some(a), player_job |-> b, diff_job |-> c]),
      refrence_compile_job |->
        IF compiler = reference_compiler
        THEN [st.refrence_compile_job EXCEPT ![example] = a]
        ELSE st.refrence_compile_job,
      raised |-> FALSE]

\* Mutant: every runtime gets a compile job of its own.
RuntimeStep_Recompile(st, runtime, example) ==
  LET z == Len(st.objects) + 1
      a == z + 1
      b == z + 2
  IN [st EXCEPT
        !.objects = @ \o
          << JobObject("compile_job", reference_compiler, example, <<>>),
             JobObject("player2_job", runtime, example, <<z>>),
             JobObject("diff_job", runtime, example, <<a>>) >>,
        !.jobs = @ \o <<z, a, b>>,
        !.results = Append(@,
          [class |-> "PlayerResult", program |-> runtime, example |-> example,
           compile_job |-> Some(z), player_job |-> a, diff_job |-> b])]

\* The body of `for runtime in selected_runtimes` for an ink example:
\* job_z = refrence_compile_job[example] raises KeyError on an absent key.
RuntimeStep(st, runtime, example) ==
  IF st.raised THEN st
  ELSE IF st.refrence_compile_job[example] = 0
  THEN [st EXCEPT !.raised = TRUE]
  ELSE LET z == st.refrence_compile_job[example]
           a == Len(st.objects) + 1
           b == a + 1
       IN [st EXCEPT
             !.objects = @ \o
               << JobObject("player2_job", runtime, example, <<z>>),
                  JobObject("diff_job", runtime, example, <<a>>) >>,
             !.jobs = @ \o <<a, b>>,
             !.results = Append(@,
               [class |-> "PlayerResult", program |-> runtime, example |-> example,
                compile_job |-> Some(z), player_job |-> a, diff_job |-> b])]

\* The body of `for player in selected_runtimes` for a bytecode example.
BytecodeStep(st, player, example) ==
  IF st.raised THEN st
  ELSE LET a == Len(st.objects) + 1
           b == a + 1
       IN [st EXCEPT
             !.objects = @ \o
               << JobObject("player_job", player, example, <<>>),
                  JobObject("diff_job", player, example, <<a>>) >>,
             !.jobs = @ \o <<a, b>>,
             !.results = Append(@,
               [class |-> "PlayerResult", program |-> player, example |-> example,
                compile_job |-> Nothing, player_job |-> a, diff_job |-> b])]

RECURSIVE CompilerLoop(_, _, _)
CompilerLoop(st, compilers, example) ==
  IF compilers = <<>> THEN st
  ELSE CompilerLoop(CompilerStep(st, Head(compilers), example), Tail(compilers), example)

RECURSIVE RuntimeLoop(_, _, _)
RuntimeLoop(st, runtimes, example) ==
  IF runtimes = <<>> THEN st
  ELSE RuntimeLoop(RuntimeStep(st, Head(runtimes), example), Tail(runtimes), example)

RECURSIVE PlayerLoop(_, _, _)
PlayerLoop(st, players, example) ==
  IF players = <<>> THEN st
  ELSE PlayerLoop(BytecodeStep(st, Head(players), example), Tail(players), example)

\* for j, example in enumerate(ink_examples): compilers, then runtimes.
RECURSIVE InkLoop(_, _, _, _)
InkLoop(st, examples, compilers, runtimes) ==
  IF examples = <<>> \/ st.raised THEN st
  ELSE InkLoop(RuntimeLoop(CompilerLoop(st, compilers, Head(examples)),
                           runtimes, Head(examples)),
               Tail(examples), compilers, runtimes)

\* for j, example in enumerate(bytecode_examples)
RECURSIVE BytecodeLoop(_, _, _)
BytecodeLoop(st, examples, players) ==
  IF examples = <<>> THEN st
  ELSE BytecodeLoop(PlayerLoop(st, players, Head(examples)), Tail(examples), players)

\* What main has built when it reaches run_jobs, or when a KeyError ends it.
BuildGraph(sel) ==
  BytecodeLoop(
    InkLoop(EmptyGraph, Filter(ink_examples, sel.ink),
            Filter(compiler_drivers, sel.compilers),
            Filter(player_drivers, sel.runtimes)),
    Filter(bytecode_examples, sel.bytecode),
    Filter(player_drivers, sel.runtimes))

GraphInit ==
  /\ NoBatch(Jobs)
  /\ files = {}
  /\ selected \in { Some(sel) : sel \in ValidSelections }
  /\ graph = Nothing
  /\ argv = <<>> /\ disk = <<>> /\ diff_exit = Nothing
  /\ fixture = Nothing /\ preflight = None
  /\ selection = Nothing /\ captured = <<>>

\* main from `jobs = []` to the call of run_jobs.
ConstructGraph ==
  /\ selected # Nothing
  /\ graph = Nothing
  /\ graph' = Some(BuildGraph(selected[1]))
  /\ UNCHANGED <<wiring, settled, progress, argv, disk, diff_exit, fixture,
                 preflight, selection, captured, selected>>

GraphSpec == GraphInit /\ [][ConstructGraph]_vars

\* ------------------------------------------------------- settle called again
\* The positions of the longest results list.
MainResultIds == UNION { DOMAIN MainResults(in) : in \in MainInputs }

\* Mutant: settle moves the run job's infra_error to the Result.
SettleLeavesJobs_Consume(r) ==
  /\ infra_error' = [infra_error EXCEPT ![r.player_job] = Nothing]
  /\ UNCHANGED <<return_code, timed_out>>

\* settle() assigns to no attribute of a Job.
SettleLeavesJobs(r) == UNCHANGED <<return_code, timed_out, infra_error>>

\* One more result.settle() on a settled Result, the jobs being terminal.
SettleAgain(i) ==
  /\ main_pc = "settled"
  /\ i \in DOMAIN results
  /\ settle_calls[i] < MaxSettleCalls
  /\ ~settle(results[i]).raises
  /\ status' = [status EXCEPT ![i] = settle(results[i]).status]
  /\ result_infra_error' = [result_infra_error EXCEPT ![i] =
       IF settle(results[i]).infra_error # Nothing
       THEN settle(results[i]).infra_error ELSE @]
  /\ settle_calls' = [settle_calls EXCEPT ![i] = @ + 1]
  /\ SettleLeavesJobs(results[i])
  /\ UNCHANGED <<config, task, task_exception, pc, SEM, held, acquired,
                 streams, process, signalled, spawned, wait_bound, files,
                 stderr_size, main_pc, exit_status>>

ResettleNext ==
  \/ MainNext
  \/ \E i \in MainResultIds : SettleAgain(i)

\* main, with further settle() calls on its Results before it exits.
ResettleSpec == MainInit /\ [][ResettleNext]_vars

\* ------------------------------------------------------------------ claims
\* The job has opened its output files or created a subprocess.
Started(j) == streams[j] # "unopened" \/ spawned[j] > 0 \/ process[j] # "none"

\* All outcome fields are as Job.__init__ left them.
Defaults(j) ==
  return_code[j] = Nothing /\ ~timed_out[j] /\ infra_error[j] = Nothing

\* The job did not run: no slot, no file, no process, no outcome.
DidNotRun(j) == ~Started(j) /\ ~acquired[j] /\ Defaults(j)

\* C1: a job with dependencies opens no output file and spawns no process
\* before every one of its dependencies is terminal.
C1_SpawnAfterAllDeps ==
  \A j \in jobs : Started(j) => \A d \in deps[j] : TaskDone(d)

C1_Witness ==
  \E j \in jobs : Cardinality(deps[j]) >= 2 /\ spawned[j] > 0

\* C2: the number of subprocesses spawned and not yet reaped never exceeds
\* the gate capacity.
C2_ProcessesWithinCapacity ==
  Cardinality({j \in Jobs : process[j] = "running"}) <= GateCapacity

\* C3: a job with a dependency whose exit code is non-zero never spawns,
\* creates no output file and keeps return_code, timed_out and infra_error
\* at their defaults.
C3_NonZeroDepSkips ==
  \A j \in jobs :
    (\E d \in deps[j] : return_code[d] \notin {Nothing, Some(0)}) => DidNotRun(j)

C3_Witness ==
  \E j \in jobs : TaskDone(j) /\ \E d \in deps[j] : return_code[d] = Some(1)

\* C4: a job with a dependency that timed out never spawns a process,
\* whatever exit code the terminated dependency reports.
C4_TimedOutDepSkips ==
  \A j \in jobs : (\E d \in deps[j] : timed_out[d]) => ~Started(j)

\* C5: a job with a dependency that ended with infra_error, or that was
\* itself skipped, does nothing: no process and all outcome fields default.
C5_FailurePropagates ==
  \A j \in jobs :
    (\E d \in deps[j] : TaskDone(d) /\ (infra_error[d] # Nothing \/ DidNotRun(d)))
      => DidNotRun(j)

C5_Witness ==
  \E j \in jobs : \E d \in deps[j] : \E e \in deps[d] :
    /\ TaskDone(j) /\ infra_error[e] # Nothing /\ DidNotRun(d)
    /\ e \notin deps[j]

\* C6: a terminal job is in exactly one of: normal completion, timed out,
\* infra error, skipped because of a dependency failure.
NormalCompletion(j) ==
  return_code[j] # Nothing /\ ~timed_out[j] /\ infra_error[j] = Nothing

SkippedByDependency(j) == DepFailed(j) /\ Defaults(j)

OutcomeCount(j) ==
  Cardinality({ c \in {"normal", "timed_out", "infra_error", "skipped"} :
    \/ c = "normal" /\ NormalCompletion(j)
    \/ c = "timed_out" /\ timed_out[j]
    \/ c = "infra_error" /\ infra_error[j] # Nothing
    \/ c = "skipped" /\ SkippedByDependency(j) })

C6_ExactlyOneOutcome ==
  \A j \in jobs : TaskDone(j) => OutcomeCount(j) = 1

\* C7: if a precondition path (expected_paths, the stdin path included) does
\* not exist when the job starts work, the job ends with a not-found
\* infra_error naming a missing path, opens no stream, spawns no process and
\* leaves return_code unset and timed_out false; it stays that way.
PreconditionMissing(j) ==
  \/ \E i \in 1..Len(expected_paths[j]) : expected_paths[j][i] \notin files
  \/ stdin_path[j] # None /\ stdin_path[j] \notin files

NotFoundOutcome(j) ==
  /\ infra_error[j] # Nothing
  /\ infra_error[j][1] = "FileNotFoundError"
  /\ infra_error[j][2] \in Paths

StartsWork(j) == pc[j] \in {"run", "acquire"} /\ acquired'[j] /\ ~acquired[j]

C7_MissingPrecondition ==
  /\ [][\A j \in jobs : (StartsWork(j) /\ PreconditionMissing(j)) =>
          /\ task'[j] = "done" /\ task_exception'[j] = None
          /\ infra_error'[j] # Nothing
          /\ infra_error'[j][1] = "FileNotFoundError"
          /\ infra_error'[j][2] \notin files
          /\ streams'[j] = "unopened" /\ spawned'[j] = 0 /\ process'[j] = "none"
          /\ return_code'[j] = Nothing /\ ~timed_out'[j]]_vars
  /\ [](\A j \in jobs : NotFoundOutcome(j) =>
          /\ TaskDone(j) /\ ~Started(j)
          /\ return_code[j] = Nothing /\ ~timed_out[j])

C7_Witness ==
  \E j \in jobs : TaskDone(j) /\ infra_error[j] = FileNotFoundError("input")

\* C8: run_jobs begins every job of the batch, returns only when every job
\* of the batch is terminal, and eventually returns.
C8_RunJobsReturns ==
  /\ [](main_pc # "run_jobs" => \A j \in jobs : task[j] # None)
  /\ [](main_pc = "returned" => \A j \in jobs : TaskDone(j))
  /\ <>(main_pc = "returned")

\* C9: on a timeout the job sets timed_out, signals its own process and
\* starts a second wait bounded by the same timeout, in one step and with
\* return_code still unset; return_code of a timed-out job is written only
\* by that second wait, when the process has exited.
C9_TimeoutSequence ==
  /\ [][\A j \in jobs : (timed_out'[j] /\ ~timed_out[j]) =>
          /\ pc[j] = "wait_for" /\ process[j] = "running"
          /\ wait_bound[j] = Some(timeout[j])
          /\ signalled'[j] /\ ~signalled[j]
          /\ process'[j] = "running"
          /\ pc'[j] = "wait_for_2"
          /\ wait_bound'[j] = Some(timeout[j])
          /\ return_code[j] = Nothing /\ return_code'[j] = Nothing]_vars
  /\ [][\A j \in jobs : (timed_out[j] /\ return_code'[j] # return_code[j]) =>
          /\ pc[j] = "wait_for_2" /\ wait_bound[j] = Some(timeout[j])
          /\ signalled[j]
          /\ return_code[j] = Nothing
          /\ process[j] = "running" /\ process'[j] = "exited"]_vars
  /\ [](\A j \in jobs : signalled[j] => timed_out[j])

C9_Witness ==
  \E j \in jobs : timed_out[j] /\ signalled[j] /\ return_code[j] # Nothing

\* C10: a job whose process is still running when the second wait expires
\* does not hang: a job in its second wait becomes terminal, a job whose
\* second wait expired is terminal, and run_jobs then returns.
C10_NoHangAfterSecondTimeout ==
  /\ \A j \in Jobs : (pc[j] = "wait_for_2") ~> TaskDone(j)
  /\ \A j \in Jobs :
       (task_exception[j] = "TimeoutError" /\ process[j] = "running")
         ~> (main_pc = "returned")
  /\ [](\A j \in Jobs : task_exception[j] = "TimeoutError" => TaskDone(j))

C10_Witness ==
  /\ main_pc = "returned"
  /\ \E j \in jobs : task_exception[j] = "TimeoutError" /\ process[j] = "running"

\* ------------------------------------------------- claims about the Results
\* The settle loop has run to its end.
AllSettled == main_pc \in {"settled", "exited"}

ResultIds == DOMAIN results

RunJob(i) == results[i].player_job
DiffJob(i) == results[i].diff_job
HasCompileJob(i) == results[i].compile_job # Nothing
CompileJob(i) == results[i].compile_job[1]

\* The jobs of the chain of Result i.
Chain(i) ==
  {RunJob(i), DiffJob(i)} \cup (IF HasCompileJob(i) THEN {CompileJob(i)} ELSE {})

\* The job exited with a code other than zero.
ExitedNonZero(j) == return_code[j] \notin {Nothing, Some(0)}

\* Size of the job's stderr file, an absent file counting as empty.
StderrBytes(j) == IF stderr_size[j] = Nothing THEN 0 ELSE stderr_size[j][1]

\* The status of the first rule of a ladder whose condition holds.
FirstMatching(rules) ==
  LET i == CHOOSE i \in 1..Len(rules) :
             rules[i][1] /\ \A k \in 1..(i - 1) : ~rules[k][1]
  IN rules[i][2]

\* The rules about the compile job of a full compile chain.
CompileRules(c) ==
  << <<timed_out[c], TimeoutStatus>>,
     <<infra_error[c] # Nothing, InfraErrorStatus>>,
     <<ExitedNonZero(c), ErrorCompilerCrashedStatus>>,
     <<out_path[c] \notin files, ErrorCompilerDidNotOutputStatus>> >>

\* The rules about the run job and the diff job; the run job's code is
\* "non-zero" when it is not the code 0, a job without exit code included.
RunRules(run, diff) ==
  << <<timed_out[run], TimeoutStatus>>,
     <<infra_error[run] # Nothing, InfraErrorStatus>>,
     <<return_code[run] # Some(0), ErrorRuntimeCrashedStatus>>,
     <<return_code[diff] = Some(1) /\ StderrBytes(run) > StderrLimit,
       ErrorRuntimeCrashedStatus>>,
     <<return_code[diff] = Some(1) /\ StderrBytes(run) <= StderrLimit,
       FailStatus>>,
     <<TRUE, SuccessStatus>> >>

\* C11: a Result whose run job exceeded its timeout is settled with the
\* timeout status, and when settle has run the run job's subprocess no
\* longer exists, also when it did not exit within the second wait.
C11_TimedOutRunReaped ==
  AllSettled => \A i \in ResultIds :
    timed_out[RunJob(i)] =>
      status[i] = TimeoutStatus /\ process[RunJob(i)] # "running"

\* C12: every slot a job takes is given back exactly once on every exit
\* path: free slots plus jobs holding one always equal the capacity, a step
\* in which a job stops holding raises the free slots by exactly one, and
\* when run_jobs returns all slots are free.
C12_SlotsBalanced ==
  /\ [](SEM # Nothing =>
          /\ SemValue + Cardinality({j \in Jobs : held[j]}) = capacity
          /\ \A j \in Jobs : TaskDone(j) => ~held[j])
  /\ [][\A j \in Jobs : (held[j] /\ ~held'[j]) =>
          /\ SemValue' = SemValue + 1
          /\ \A k \in Jobs \ {j} : held'[k] = held[k]]_vars
  /\ [](main_pc = "returned" =>
          SemValue = capacity /\ \A j \in Jobs : ~held[j])

C12_Witness ==
  /\ main_pc = "returned" /\ SemValue = capacity
  /\ \E j \in jobs : task_exception[j] = "TimeoutError"
  /\ \E j \in jobs : task_exception[j] = "OSError"
  /\ \E j \in jobs : infra_error[j] # Nothing /\ ~Started(j)

\* C13: every stream a job opened is closed by the time the job is
\* terminal, on every exit path.
C13_StreamsClosed ==
  \A j \in jobs : TaskDone(j) => streams[j] # "open"

C15_PlayerChecksCompileJob ==
  AllSettled => \A i \in ResultIds :
    (results[i].class = "PlayerResult" /\ HasCompileJob(i)) =>
      LET c == CompileJob(i) IN
        /\ timed_out[c] => status[i] = TimeoutStatus
        /\ (~timed_out[c] /\ infra_error[c] # Nothing) =>
             status[i] = InfraErrorStatus /\ result_infra_error[i] = infra_error[c]
        /\ (~timed_out[c] /\ infra_error[c] = Nothing
              /\ return_code[c] = Some(0) /\ out_path[c] \notin files) =>
             status[i] = ErrorCompilerDidNotOutputStatus

\* C16: after the batch is settled, every Result whose compile job exited
\* with a non-zero code is COMPILER_CRASHED and its run job never spawned.
C16_CompilerCrashed ==
  AllSettled => \A i \in ResultIds :
    (HasCompileJob(i) /\ NormalCompletion(CompileJob(i))
       /\ ExitedNonZero(CompileJob(i))) =>
      status[i] = ErrorCompilerCrashedStatus /\ spawned[RunJob(i)] = 0

\* C17: a PlayerResult without compile job is settled with the status of
\* the first matching rule of: run timed out, run infra_error, run exit code
\* non-zero, diff 1 with stderr above 5 bytes, diff 1 with stderr of at most
\* 5 bytes (5 included), otherwise SUCCESS; so a run job that timed out and
\* was reaped with a non-zero code is TIMEOUT.
C17_PlayerLadder ==
  AllSettled => \A i \in ResultIds :
    (results[i].class = "PlayerResult" /\ ~HasCompileJob(i)) =>
      /\ status[i] = FirstMatching(RunRules(RunJob(i), DiffJob(i)))
      /\ (timed_out[RunJob(i)] /\ ExitedNonZero(RunJob(i))) =>
           status[i] = TimeoutStatus

C17_Witness ==
  /\ AllSettled
  /\ \E i \in ResultIds :
       /\ results[i].class = "PlayerResult" /\ ~HasCompileJob(i)
       /\ timed_out[RunJob(i)] /\ return_code[RunJob(i)] = Some(1)

\* C18: a Result whose chain has a job that ended with infra_error or timed
\* out is never FAIL, RUNTIME_CRASHED, COMPILER_CRASHED or COMPILER_NO_OUTPUT.
SoftwareFailures ==
  {FailStatus, ErrorRuntimeCrashedStatus, ErrorCompilerCrashedStatus,
   ErrorCompilerDidNotOutputStatus}

C18_InfraNeverBlamed ==
  AllSettled => \A i \in ResultIds :
    (\E j \in Chain(i) : infra_error[j] # Nothing \/ timed_out[j]) =>
      status[i] \notin SoftwareFailures

\* C19 as stated: a Result whose run job found a precondition path missing
\* when it started is INFRA_ERROR, with the job's error in infra_error.
RunPreconditionMissing(i) ==
  /\ infra_error[RunJob(i)] # Nothing
  /\ infra_error[RunJob(i)][1] = "FileNotFoundError"
  /\ ~Started(RunJob(i))

C19_MissingPreconditionIsInfra ==
  AllSettled => \A i \in ResultIds :
    RunPreconditionMissing(i) =>
      status[i] = InfraErrorStatus /\ result_infra_error[i] = infra_error[RunJob(i)]

\* C19, amended: such a Result is INFRA_ERROR with the job's error in
\* infra_error, except for a CompilerResult whose compile job timed out
\* (TIMEOUT) or, failing that, whose artifact is absent (COMPILER_NO_OUTPUT,
\* infra_error left empty).
C19_MissingPreconditionAmended ==
  AllSettled => \A i \in ResultIds :
    RunPreconditionMissing(i) =>
      IF results[i].class = "CompilerResult" /\ timed_out[CompileJob(i)]
      THEN status[i] = TimeoutStatus /\ result_infra_error[i] = Nothing
      ELSE IF results[i].class = "CompilerResult"
              /\ out_path[CompileJob(i)] \notin files
      THEN status[i] = ErrorCompilerDidNotOutputStatus
           /\ result_infra_error[i] = Nothing
      ELSE status[i] = InfraErrorStatus
           /\ result_infra_error[i] = infra_error[RunJob(i)]

C19_Witness ==
  /\ AllSettled
  /\ \E i \in ResultIds :
       /\ results[i].class = "CompilerResult"
       /\ infra_error[RunJob(i)] = FileNotFoundError("artifact")
       /\ status[i] = ErrorCompilerDidNotOutputStatus
  /\ \E i \in ResultIds :
       /\ results[i].class = "PlayerResult"
       /\ infra_error[RunJob(i)] = FileNotFoundError("input")
       /\ status[i] = InfraErrorStatus

\* C20 as stated: settle never raises and gives every Result exactly one
\* status, whose name is one of SUCCESS, FAIL, COMPILER_NO_OUTPUT,
\* RUNTIME_CRASHED, COMPILER_CRASHED, TIMEOUT, INFRA_ERROR.
TaxonomyNames ==
  {"SUCCESS", "FAIL", "COMPILER_NO_OUTPUT", "RUNTIME_CRASHED",
   "COMPILER_CRASHED", "TIMEOUT", "INFRA_ERROR"}

JsonStatuses ==
  {SuccessStatus, FailStatus, ErrorCompilerDidNotOutputStatus,
   ErrorRuntimeCrashedStatus, ErrorCompilerCrashedStatus, TimeoutStatus,
   InfraErrorStatus}

C25_NoExceptionEscapes ==
  \A j \in jobs : TaskDone(j) => task_exception[j] = None

\* C26: each job is begun once and spawns at most one subprocess in the
\* whole run: its task is created once, by run_jobs, and never restarted, a
\* terminal job spawns nothing more, and a skipped job spawns none.
C26_SingleAttempt ==
  /\ [](\A j \in Jobs : spawned[j] <= 1)
  /\ [](\A j \in jobs : (TaskDone(j) /\ DepFailed(j)) => spawned[j] = 0)
  /\ [][\A j \in Jobs :
          /\ task'[j] # task[j] =>
               \/ task[j] = None /\ task'[j] = "pending" /\ main_pc = "run_jobs"
               \/ task[j] = "pending" /\ task'[j] = "done"
          /\ pc[j] # "run" => pc'[j] # "run"
          /\ TaskDone(j) => spawned'[j] = spawned[j]]_vars

C26_Witness ==
  /\ main_pc = "returned"
  /\ \E j \in jobs : timed_out[j] /\ spawned[j] = 1
  /\ \E j \in jobs : DepFailed(j) /\ spawned[j] = 0

\* C29: the precondition check comes before the slot: a job whose
\* precondition file is missing never acquires a slot nor waits for one.
C29_CheckBeforeSlot ==
  \A j \in jobs : NotFoundOutcome(j) => ~acquired[j]

\* C21: settle is idempotent: a second settle on a Result whose jobs are
\* terminal leaves its status and its infra_error as the first left them,
\* and no settle changes a field of a Job.
C21_SettleIdempotent ==
  /\ [][\A i \in DOMAIN results :
          (settle_calls[i] >= 1 /\ settle_calls'[i] > settle_calls[i]) =>
            /\ status'[i] = status[i]
            /\ result_infra_error'[i] = result_infra_error[i]]_vars
  /\ [][settle_calls' # settle_calls =>
          UNCHANGED <<return_code, timed_out, infra_error, task, task_exception,
                      process, spawned, streams, stdin_path, stderr_path,
                      out_path, expected_paths, deps, timeout>>]_vars

C21_Witness ==
  /\ \E i \in DOMAIN results :
       settle_calls[i] = MaxSettleCalls /\ status[i] = InfraErrorStatus
  /\ \E i \in DOMAIN results :
       settle_calls[i] = MaxSettleCalls /\ status[i] = ErrorCompilerDidNotOutputStatus

\* C22: every Result is settled exactly once, and only when every job of
\* its chain is terminal; no Result has a status while a job of the batch
\* is pending or running.
C22_SettledOnceAfterBatch ==
  /\ [](\A i \in DOMAIN results :
          /\ settle_calls[i] <= 1
          /\ (status[i] # Unset \/ settle_calls[i] > 0) =>
               \A j \in jobs : TaskDone(j) /\ pc[j] = "end"
          /\ AllSettled => (settle_calls[i] = 1 /\ status[i] # Unset))
  /\ [][\A i \in DOMAIN results :
          (status'[i] # status[i] \/ settle_calls'[i] # settle_calls[i]) =>
            /\ status[i] = Unset /\ settle_calls[i] = 0
            /\ \A j \in Chain(i) : TaskDone(j)]_vars

C22_Witness ==
  /\ main_pc = "exited"
  /\ Len(results) >= 2
  /\ \E j \in jobs : task_exception[j] = "TimeoutError"

\* C23: the exit code is 0 exactly when every result is SUCCESS, 1 when at
\* least one result is FAIL whatever the others are, and 2 when some result
\* is not SUCCESS and none is FAIL.
C23_ExitCode ==
  main_pc = "exited" =>
    LET failed == \E i \in DOMAIN results : status[i] = FailStatus
        allOk == \A i \in DOMAIN results : status[i] = SuccessStatus
    IN /\ exit_status # Nothing
       /\ exit_status = Some(0) <=> allOk
       /\ failed => exit_status = Some(1)
       /\ (~allOk /\ ~failed) => exit_status = Some(2)

C23_Witness ==
  /\ main_pc = "exited" /\ exit_status = Some(1)
  /\ \E i \in DOMAIN results : status[i] = FailStatus
  /\ \E i \in DOMAIN results :
       status[i] \in {ErrorRuntimeCrashedStatus, TimeoutStatus, InfraErrorStatus}

\* The jobs reached from j by following dependencies, in at most n steps.
RECURSIVE DepsWithin(_, _)
DepsWithin(j, n) ==
  IF n = 0 THEN {}
  ELSE deps[j] \cup UNION { DepsWithin(d, n - 1) : d \in deps[j] }

OnCycle(j) == j \in DepsWithin(j, NumJobs)

\* C28: when the dependency graph has a cycle (a self-dependency included),
\* no job on the cycle ever spawns or becomes terminal, and run_jobs never
\* returns.
C28_CycleDeadlocks ==
  \A j \in jobs : OnCycle(j) =>
    /\ spawned[j] = 0 /\ process[j] = "none"
    /\ ~TaskDone(j) /\ pc[j] = "run"
    /\ main_pc \notin {"returned", "raised"}

C28_Witness ==
  /\ main_pc = "wait"
  /\ \E j \in jobs : OnCycle(j) /\ j \notin deps[j] /\ task[j] = "pending"
  /\ \E j \in jobs : j \in deps[j] /\ task[j] = "pending"
  /\ \E k \in jobs : ~OnCycle(k) /\ TaskDone(k) /\ spawned[k] = 1

\* What diff.py is to compare: the lines of a file, its leading byte-order
\* mark removed.
LinesOf(f) == splitlines(decode_utf_8_sig(disk[f][1]))

\* diff.py cannot do its work: wrong argument count or an unreadable file.
DiffOwnFailure ==
  \/ Len(argv) # 3
  \/ disk[argv[2]] = Nothing
  \/ disk[argv[3]] = Nothing

\* C30: diff.py exits 0 exactly when the two files have the same lines
\* (a leading byte-order mark apart), 1 exactly when they differ, and with
\* another code when it fails itself (argument count, unreadable file).
C30_DiffExitCodes ==
  diff_exit # Nothing =>
    IF DiffOwnFailure
    THEN diff_exit \notin {Some(0), Some(1)}
    ELSE /\ diff_exit = Some(0) <=> LinesOf(argv[2]) = LinesOf(argv[3])
         /\ diff_exit = Some(1) <=> LinesOf(argv[2]) # LinesOf(argv[3])

\* C27: when the selected fixture lacks one of its required files, the run
\* aborts with exit code 1 before any job is constructed or begun.
C27_MalformedFixtureAborts ==
  (preflight # None /\ fixture[1].present # RequiredFiles) =>
    /\ preflight \in {"select", "check", "aborted"}
    /\ preflight = "aborted" => exit_status = Some(1)
    /\ jobs = {}
    /\ \A j \in MainJobIds : task[j] = None

\* The files job i of the built graph writes its captured output to.
WrittenBy(i) == {captured[i].stdout, captured[i].stderr} \ {<<>>}

\* C24: in the job graph main builds, every captured stdout, stderr and diff
\* path is the output path of exactly one job: no two jobs write the same
\* file, whatever names the drivers and examples have.
C24_OneWriterPerFile ==
  \A i, k \in DOMAIN captured : i # k => WrittenBy(i) \cap WrittenBy(k) = {}

\* C34: a job skipped for a failed dependency never acquires a gate slot and
\* never waits for one: it ends at the dependency check, whatever the gate's
\* value, and leaves the gate as it was.
C34_SkippedJobsTakeNoSlot ==
  /\ [](\A j \in jobs : (DepsDone(j) /\ DepFailed(j)) =>
          /\ ~acquired[j] /\ ~held[j]
          /\ pc[j] \in {"run", "end"})
  /\ [][\A j \in MainJobIds :
          (task[j] = "pending" /\ task'[j] = "done" /\ DepFailed(j)) =>
            /\ SEM' = SEM
            /\ held' = held]_vars

C34_Witness ==
  /\ SEM # Nothing /\ SemValue = 0
  /\ \E j \in jobs : TaskDone(j) /\ DepFailed(j) /\ ~acquired[j]
  /\ \E k \in jobs : held[k] /\ process[k] = "running"

\* C31: a Result is SUCCESS only if its diff job spawned and completed
\* normally with exit code 0: a diff job that was skipped, timed out, ended
\* with infra_error or exited with another code never yields SUCCESS.
C31_SuccessNeedsCleanDiff ==
  AllSettled => \A i \in ResultIds :
    status[i] = SuccessStatus =>
      /\ spawned[DiffJob(i)] = 1
      /\ return_code[DiffJob(i)] = Some(0)
      /\ ~timed_out[DiffJob(i)]
      /\ infra_error[DiffJob(i)] = Nothing
      /\ task_exception[DiffJob(i)] = None

\* The body of the job's task has started executing (or has ended).
BodyStarted(j) == task[j] = "done" \/ pc[j] # "run" \/ Started(j)

\* C33: in a batch built by main every dependency of a job is a job of the
\* batch, and every job has been begun before the body of any job starts:
\* no job waits on a dependency whose task has not been created.
C33_DepsBegunBeforeBodies ==
  /\ \A j \in jobs : deps[j] \subseteq jobs
  /\ (\E j \in jobs : BodyStarted(j)) => \A k \in jobs : task[k] # None
  /\ \A j \in jobs : task[j] # None => \A d \in deps[j] : task[d] # None

C33_Witness ==
  /\ main_pc = "wait"
  /\ \E j \in jobs :
       /\ task[j] = "pending" /\ pc[j] = "run"
       /\ \E d \in deps[j] : task[d] = "pending" /\ process[d] = "running"
  /\ Cardinality(jobs) = 5

\* C32: for every selection that passes main's validation the construction
\* of the job graph completes, also when the reference compiler is not
\* among the selected compilers.
C32_ConstructionCompletes ==
  graph # Nothing => ~graph[1].raised

\* The Job objects built by compile_job for compiler c and ink example e.
CompileObjects(c, e) ==
  { i \in DOMAIN graph[1].objects :
      /\ graph[1].objects[i].constructor = "compile_job"
      /\ graph[1].objects[i].program = c
      /\ graph[1].objects[i].example = e }

\* How often Job object i is in the jobs list.
Occurrences(i) ==
  Cardinality({ k \in DOMAIN graph[1].jobs : graph[1].jobs[k] = i })

\* C35: the batch main builds has exactly one compile job per selected
\* compiler and ink example, once in the jobs list; the reference compiler's
\* compile job of an example is the Job its CompilerResult reports on and
\* the one every runtime run job of that example depends on.
C35_OneCompileJobPerPair ==
  (graph # Nothing /\ ~graph[1].raised) =>
    LET g == graph[1]
        sel == selected[1]
    IN /\ \A c \in Range(compiler_drivers), e \in Range(ink_examples) :
            IF c \in sel.compilers /\ e \in sel.ink
            THEN /\ Cardinality(CompileObjects(c, e)) = 1
                 /\ \A i \in CompileObjects(c, e) : Occurrences(i) = 1
            ELSE CompileObjects(c, e) = {}
       /\ \A i \in DOMAIN g.objects : Occurrences(i) = 1
       /\ \A e \in sel.ink : \A z \in CompileObjects(reference_compiler, e) :
            /\ Cardinality({ r \in DOMAIN g.results :
                 /\ g.results[r].class = "CompilerResult"
                 /\ g.results[r].program = reference_compiler
                 /\ g.results[r].example = e
                 /\ g.results[r].compile_job = Some(z) }) = 1
            /\ \A r \in DOMAIN g.results :
                 (g.results[r].class = "PlayerResult" /\ g.results[r].example = e) =>
                   /\ g.results[r].compile_job = Some(z)
                   /\ g.objects[g.results[r].player_job].deps = <<z>>

C35_Witness ==
  /\ graph # Nothing /\ ~graph[1].raised
  /\ selected[1].compilers = Range(compiler_drivers)
  /\ selected[1].runtimes = Range(player_drivers)
  /\ selected[1].ink = Range(ink_examples)
  /\ Len(graph[1].jobs) >= 20

====
